---- MODULE Spec2Model ----
(***************************************************************************)
(* Model of main.py: the action-protocol handler (call_openai and the two  *)
(* submit handlers of main) and the per-frame movement / animation step of *)
(* the main loop.                                                          *)
(*                                                                         *)
(* Units.  Time is counted in milliseconds (clock.tick returns integer     *)
(* milliseconds; dt = ms / 1000.0).  Pixel coordinates are counted in      *)
(* 1/PX pixel, PX = 5, so that MOVE_SPEED * dt is the integer StepLen(ms). *)
(* The model computes with exact numbers where the program uses floats;    *)
(* the program's 1e-3 snap at arrival absorbs the float rounding.          *)
(***************************************************************************)
EXTENDS Integers, Sequences, FiniteSets, TLC

VARIABLES
    pos,             \* <<x, y>>  grid position (pos['x'], pos['y'])
    px, py,          \* pixel position, in 1/PX pixel
    target_px, target_py,
    move_queue,      \* collections.deque of <<dx, dy>>
    moving, last_dir,
    anim_t, anim_i, idle_t,
    curr,            \* tile id drawn for the player in the last frame
    error_msg, latest_npc_msg,
    pc,              \* "loop" while the main loop runs, "raised" after an
                     \* exception left it
    ENABLE_MOVEMENT, \* module flag, fixed for a run
    dts,             \* tick durations clock.tick delivers in this run
    replies,         \* number of replies handled so far
    ev,              \* the last handler or frame step that ran, with its inputs
    since,           \* bookkeeping since the last reply
    tticks           \* frames of the current or last transit, the accepting
                     \* frame included (counted in runs with one tick duration)

vars == <<pos, px, py, target_px, target_py, move_queue, moving, last_dir,
          anim_t, anim_i, idle_t, curr, error_msg, latest_npc_msg, pc,
          ENABLE_MOVEMENT, dts, replies, ev, since, tticks>>

(***************************************************************************)
(* Bounds of the model                                                     *)
(***************************************************************************)
MaxQueue   == 3      \* replies are taken while the queue stays this short
MaxReplies == 2      \* replies handled in one run
MaxSteps   == 2      \* steps listed in one move reply
MaxTimes   == 3      \* largest "times" of a step
IdleCap    == 800    \* idle_t is tracked up to this many ms

(***************************************************************************)
(* Program constants                                                       *)
(***************************************************************************)
PX            == 5     \* 1000 / MOVE_SPEED: sub-pixels covered per ms
MOVE_SPEED    == 200   \* pixels per second
ANIM_INTERVAL == 20    \* 0.02 s, in ms
IDLE_DELAY    == 800   \* 0.8 s, in ms
IDLE_TILE     == "300"
tile          == 50    \* int(500 * (800 / (16 * 500)))
cols          == 16    \* len(bg[0]) of the 16 x 7 map
rows          == 7     \* len(bg)

Dir == {<<0, 1>>, <<1, 0>>, <<-1, 0>>, <<0, -1>>}

ANIM_TILES ==
    ( <<0, 1>>  :> <<"310", "311">> ) @@
    ( <<1, 0>>  :> <<"320", "321">> ) @@
    ( <<-1, 0>> :> <<"330", "331">> ) @@
    ( <<0, -1>> :> <<"340", "341">> )

\* the literal dict of the handlers
DIR_NAMES_Flipped == [up |-> <<0, -1>>, down |-> <<0, 1>>,
                      left |-> <<-1, 0>>, right |-> <<1, 0>>]
DIR_NAMES == [up |-> <<0, 1>>, down |-> <<0, -1>>,
              left |-> <<-1, 0>>, right |-> <<1, 0>>]

(***************************************************************************)
(* Map data (map.json): the hazard cells, which main.py collects in        *)
(* lava_set, and the four directional sets left, right, top and bottom,    *)
(* which main.py does not read.                                            *)
(***************************************************************************)
\* the cells without a hazard: a corridor along y = 2 from the west edge to
\* the hazard at (3, 2), and a corridor along x = 1 from the south edge to the
\* north edge, one cell wider at y = 3
floor_set  == {<<0, 2>>, <<1, 2>>, <<2, 2>>, <<2, 3>>} \cup
              {<<1, y>> : y \in 0..(rows - 1)}
lava_set   == ((0..(cols - 1)) \X (0..(rows - 1))) \ floor_set
left_set   == {<<1, 3>>}
right_set  == {<<2, 2>>}
top_set    == {<<1, 4>>}
bottom_set == {<<1, 1>>}

\* the direction each directional set refuses
Refused(p) ==
    (IF p \in left_set   THEN {<<1, 0>>}  ELSE {}) \cup
    (IF p \in right_set  THEN {<<-1, 0>>} ELSE {}) \cup
    (IF p \in top_set    THEN {<<0, -1>>} ELSE {}) \cup
    (IF p \in bottom_set THEN {<<0, 1>>}  ELSE {})

(***************************************************************************)
(* Helpers                                                                 *)
(***************************************************************************)
Abs(n) == IF n < 0 THEN -n ELSE n
Min(a, b) == IF a < b THEN a ELSE b
Sign(n) == IF n < 0 THEN -1 ELSE IF n > 0 THEN 1 ELSE 0

\* MOVE_SPEED * dt, in 1/PX pixel, for dt = ms / 1000.0
StepLen(ms) == (MOVE_SPEED * ms * PX) \div 1000

PixelX(x) == x * tile * PX
PixelYNoFlip(y) == y * tile * PX
PixelY(y) == (rows - 1 - y) * tile * PX

(***************************************************************************)
(* Reply texts.  A text is a sequence of chunks: a code-fence marker, a    *)
(* run of whitespace, a run of other characters, or the serialisation of   *)
(* one JSON value.  The empty string is the empty sequence.                *)
(***************************************************************************)
FENCE_JSON == [c |-> "fence", s |-> "fence json"]
FENCE      == [c |-> "fence", s |-> "fence"]
NL         == [c |-> "ws", s |-> "\n"]
Chars(s)   == [c |-> "chars", s |-> s]
Json(v)    == [c |-> "json", v |-> v]

\* JSON values: a dict (object) with its items, or a value that is no dict
Dict(d) == [ty |-> "dict", d |-> d]
NoDict  == [ty |-> "list", d |-> [n |-> 0]]

\* re.sub of line 74: every fence marker (three backquotes, optionally
\* followed by json) is deleted, wherever it stands
ReSubFenceKeep(raw) == raw
ReSubFence(raw) == SelectSeq(raw, LAMBDA ch : ch.c # "fence")

\* str.strip()
RECURSIVE LStrip(_)
LStrip(t) == IF t # <<>> /\ Head(t).c = "ws" THEN LStrip(Tail(t)) ELSE t
RECURSIVE RStrip(_)
RStrip(t) ==
    IF t # <<>> /\ t[Len(t)].c = "ws" THEN RStrip(SubSeq(t, 1, Len(t) - 1)) ELSE t
Strip(t) == RStrip(LStrip(t))

\* json.loads succeeds on a text that is the serialisation of one value
Loadable(text) == Len(text) = 1 /\ text[1].c = "json"

\* call_openai, from the raw reply on (lines 74-78)
call_openai(raw_text) ==
    LET text == Strip(ReSubFence(raw_text)) IN
    IF Loadable(text) THEN text[1].v
    ELSE Dict([mode |-> "error", content |-> text])

\* dict.get(k, default)
Get(d, k, default) == IF k \in DOMAIN d THEN d[k] ELSE default
\* res.get(mode) == m
ModeIs(d, m) == "mode" \in DOMAIN d /\ d["mode"] = m

\* for _ in range(n): move_queue.append(d)
Repeat(d, n) == [i \in 1..n |-> d]
StepTimesNoDefault(step) == IF "times" \in DOMAIN step THEN step["times"] ELSE 0
StepTimes(step) == IF "times" \in DOMAIN step THEN step["times"] ELSE 1

\* the loop of lines 157-160; raised: a KeyError left the loop at some step
RECURSIVE ExpandSteps(_, _)
ExpandSteps(steps, q) ==
    IF steps = <<>> THEN [q |-> q, raised |-> FALSE]
    ELSE LET step == Head(steps) IN
         IF "dir" \notin DOMAIN step \/ step["dir"] \notin DOMAIN DIR_NAMES
         THEN [q |-> q, raised |-> TRUE]
         ELSE ExpandSteps(Tail(steps),
                          q \o Repeat(DIR_NAMES[step["dir"]], StepTimes(step)))

\* the replies the model draws from: move replies with one step of any shape,
\* or with up to MaxSteps steps out of PairSteps
DirWords  == {"up", "down", "left", "right", "jump"}
StepSet   == {[dir |-> w] : w \in DirWords} \cup
             {[dir |-> w, times |-> n] : w \in {"up", "right"}, n \in 2..MaxTimes}
PairSteps == {[dir |-> "up"], [dir |-> "right"], [dir |-> "jump"]}
StepLists == {<<st>> : st \in StepSet} \cup
             UNION {[1..k -> PairSteps] : k \in 0..MaxSteps}
Hello     == <<Chars("hello")>>
MoveBody(sl) == <<Json(Dict([mode |-> "move", steps |-> sl]))>>
\* a move reply that also carries a content text
MoveTold  == <<Json(Dict([mode |-> "move", steps |-> <<[dir |-> "up"]>>,
                          content |-> Hello]))>>
OtherBodies ==
    {<<Json(Dict([mode |-> "move"]))>>,
     MoveTold,
     <<Json(Dict([mode |-> "talk", content |-> Hello]))>>,
     <<Json(Dict([mode |-> "talk"]))>>,
     <<Json(Dict([mode |-> "dance", content |-> Hello]))>>,
     <<Json(Dict([content |-> Hello]))>>,
     <<Json(NoDict)>>,
     <<>>,
     <<Chars("abc")>>}
Bodies    == {MoveBody(sl) : sl \in StepLists} \cup OtherBodies
\* a reply wrapped in code-fence markers
Fenced(b) == <<FENCE_JSON, NL>> \o b \o <<NL, FENCE>>
Replies   == Bodies \cup {Fenced(b) : b \in OtherBodies}
                    \cup {Fenced(MoveBody(<<[dir |-> "up"]>>))}

(***************************************************************************)
(* The submit handler (RETURN key, lines 151-166; Send button, lines       *)
(* 167-182): what it does to move_queue, error_msg and latest_npc_msg, and *)
(* the branch it ends in.  "Raise": an exception left the handler.         *)
(***************************************************************************)
Interpret(raw_text, q, err, npc, enable) ==
    LET res == call_openai(raw_text) IN
    IF res.ty # "dict"
    THEN \* res.get on a value that is no dict
         [q |-> q, err |-> err, npc |-> npc, outcome |-> "Raise"]
    ELSE LET d == res.d IN
         IF ModeIs(d, "move") /\ enable
         THEN IF "steps" \notin DOMAIN d
              THEN [q |-> q, err |-> <<>>, npc |-> npc, outcome |-> "Raise"]
              ELSE LET r == ExpandSteps(d["steps"], q) IN
                   [q |-> r.q, err |-> <<>>, npc |-> npc,
                    outcome |-> IF r.raised THEN "Raise" ELSE "Move"]
         ELSE IF ModeIs(d, "talk")
         THEN [q |-> q, err |-> <<>>, npc |-> Get(d, "content", <<>>),
               outcome |-> "Talk"]
         ELSE [q |-> q, err |-> Get(d, "content", <<>>), npc |-> npc,
               outcome |-> "Error"]

\* bookkeeping: a move reply made of one step, taken while idle with an empty
\* queue, starts a run of n steps in one direction from the current cell
NoRun == [word |-> "", n |-> 0, start |-> <<0, 0>>, transits |-> 0]
RunOf(raw_text) ==
    LET res == call_openai(raw_text) IN
    IF /\ res.ty = "dict" /\ ModeIs(res.d, "move") /\ "steps" \in DOMAIN res.d
       /\ Len(res.d["steps"]) = 1
       /\ res.d["steps"][1]["dir"] \in {"up", "down", "left", "right"}
       /\ ENABLE_MOVEMENT /\ ~moving /\ move_queue = <<>>
    THEN LET st == res.d["steps"][1] IN
         [word |-> st["dir"],
          n |-> IF "times" \in DOMAIN st THEN st["times"] ELSE 1,
          start |-> pos, transits |-> 0]
    ELSE NoRun

Submit(raw_text) ==
    LET r == Interpret(raw_text, move_queue, error_msg, latest_npc_msg,
                       ENABLE_MOVEMENT) IN
    /\ pc = "loop"
    /\ replies < MaxReplies
    /\ Len(r.q) <= MaxQueue
    /\ move_queue' = r.q
    /\ error_msg' = r.err
    /\ latest_npc_msg' = r.npc
    /\ pc' = IF r.outcome = "Raise" THEN "raised" ELSE "loop"
    /\ replies' = replies + 1
    /\ ev' = [op |-> "reply", raw |-> raw_text, q0 |-> move_queue,
              outcome |-> r.outcome]
    /\ since' = RunOf(raw_text)
    /\ UNCHANGED <<pos, px, py, target_px, target_py, moving, last_dir,
                   anim_t, anim_i, idle_t, curr, ENABLE_MOVEMENT, dts, tticks>>

\* both handlers run the same statements on the submitted text
OnSubmit == \E raw_text \in Replies : Submit(raw_text)

(***************************************************************************)
(* One frame of the main loop after the events: lines 185-206              *)
(***************************************************************************)
\* line 185
CanPopAnyTime(mv, q) == q # <<>>
CanPopInverted(mv, q) == mv /\ q # <<>>
CanPop(mv, q) == ~mv /\ q # <<>>
\* line 188
PassableNoLava(n) ==
    /\ 0 <= n[1] /\ n[1] < cols
    /\ 0 <= n[2] /\ n[2] < rows
Passable(n) ==
    /\ 0 <= n[1] /\ n[1] < cols
    /\ 0 <= n[2] /\ n[2] < rows
    /\ n \notin lava_set
\* line 191: anim_t, anim_i and idle_t are zeroed under the test of line 188
StepResetOnPop(pop, acc, v) == IF pop THEN 0 ELSE v
StepReset(pop, acc, v) == IF acc THEN 0 ELSE v
\* lines 194, 195: one coordinate moved toward its target by at most step
ApproachNoClamp(p, target, step) == p + step * Sign(target - p)
Approach(p, target, step) ==
    LET dp == target - p IN
    IF Abs(dp) > step THEN p + step * Sign(dp) ELSE p + dp
\* line 196: both distances below 1e-3 pixel
ArrivedEitherAxis(x, y, tx, ty) ==
    \/ Abs(x - tx) * 1000 < PX
    \/ Abs(y - ty) * 1000 < PX
Arrived(x, y, tx, ty) ==
    /\ Abs(x - tx) * 1000 < PX
    /\ Abs(y - ty) * 1000 < PX
\* idle_t += dt, tracked up to IdleCap
IdleAdd(t, dt) == Min(t + dt, IdleCap)
\* line 202: anim_t -= ANIM_INTERVAL
AnimWrapToZero(t) == 0
AnimWrap(t) == t - ANIM_INTERVAL
\* line 202: (anim_i + 1) % len(cycle)
AnimNextNoWrap(ai, n) == ai + 1
AnimNext(ai, n) == (ai + 1) % n
\* cycle[anim_i]; an index outside the list raises IndexError, which leaves
\* the loop before anything is drawn
TileAt(cycle, ai) == IF ai + 1 \in DOMAIN cycle THEN cycle[ai + 1]
                                                ELSE "IndexError"
\* line 206: the tile drawn while not moving
IdlePoseNoDelay(it, ld, ai) == IDLE_TILE
IdlePose(it, ld, ai) ==
    IF it >= IDLE_DELAY THEN IDLE_TILE
    ELSE TileAt(Get(ANIM_TILES, ld, <<IDLE_TILE>>), ai)

Frame(dt) ==
    LET pop  == CanPop(moving, move_queue)
        d    == Head(move_queue)
        n    == <<pos[1] + d[1], pos[2] + d[2]>>
        acc  == pop /\ Passable(n)
        \* after lines 185-191
        tx1  == IF acc THEN PixelX(n[1]) ELSE target_px
        ty1  == IF acc THEN PixelY(n[2]) ELSE target_py
        mv1  == moving \/ acc
        ld1  == IF acc THEN d ELSE last_dir
        at1  == StepReset(pop, acc, anim_t)
        ai1  == StepReset(pop, acc, anim_i)
        it1  == StepReset(pop, acc, idle_t)
        \* after lines 192-197
        step == StepLen(dt)
        x2   == IF mv1 THEN Approach(px, tx1, step) ELSE px
        y2   == IF mv1 THEN Approach(py, ty1, step) ELSE py
        arr  == mv1 /\ Arrived(x2, y2, tx1, ty1)
        mv2  == mv1 /\ ~arr
        \* lines 199-206
        at3  == IF mv2
                THEN IF at1 + dt >= ANIM_INTERVAL THEN AnimWrap(at1 + dt)
                                                  ELSE at1 + dt
                ELSE at1
        ai3  == IF mv2 /\ at1 + dt >= ANIM_INTERVAL
                THEN AnimNext(ai1, Len(ANIM_TILES[ld1])) ELSE ai1
        it3  == IF mv2 THEN 0 ELSE IdleAdd(it1, dt)
        tl   == IF mv2 THEN TileAt(ANIM_TILES[ld1], ai3)
                       ELSE IdlePose(it3, ld1, ai1)
    IN
    /\ pc = "loop"
    /\ dt \in dts
    /\ move_queue' = IF pop THEN Tail(move_queue) ELSE move_queue
    /\ pos' = IF acc THEN n ELSE pos
    /\ target_px' = tx1
    /\ target_py' = ty1
    /\ last_dir' = ld1
    /\ px' = IF arr THEN tx1 ELSE x2
    /\ py' = IF arr THEN ty1 ELSE y2
    /\ moving' = mv2
    /\ anim_t' = at3
    /\ anim_i' = ai3
    /\ idle_t' = it3
    /\ curr' = tl
    /\ pc' = IF curr' = "IndexError" THEN "raised" ELSE pc
    /\ ev' = [op |-> "tick", popped |-> IF pop THEN <<d>> ELSE <<>>,
              accepted |-> acc]
    /\ since' = IF acc /\ since.n > 0
                THEN [since EXCEPT !.transits = @ + 1] ELSE since
    /\ tticks' = IF Cardinality(dts) # 1 THEN 0
                 ELSE IF acc THEN 1
                 ELSE IF moving THEN tticks + 1 ELSE tticks
    /\ UNCHANGED <<error_msg, latest_npc_msg, ENABLE_MOVEMENT, dts, replies>>

Tick == \E dt \in dts : Frame(dt)

(***************************************************************************)
(* Specifications                                                          *)
(***************************************************************************)
\* the tick durations, in ms, that clock.tick delivers in a run: mixed ones
\* (a frame after a blocking call is long), or one fixed duration
TickSets == {{0, 1300}, {100, 1300}, {100}}

Init ==
    /\ pos = <<1, 2>>
    /\ px = PixelX(1)
    /\ py = PixelY(2)
    /\ move_queue = <<>>
    /\ moving = FALSE
    /\ last_dir = <<0, 0>>
    /\ anim_t = 0
    /\ anim_i = 0
    /\ idle_t = IDLE_DELAY
    /\ target_px = PixelX(1)
    /\ target_py = PixelY(2)
    /\ error_msg = <<>>
    /\ latest_npc_msg = <<>>
    /\ curr = ""
    /\ pc = "loop"
    /\ ENABLE_MOVEMENT \in BOOLEAN
    /\ dts \in TickSets
    /\ replies = 0
    /\ ev = [op |-> "init"]
    /\ since = NoRun
    /\ tticks = 0

Next == OnSubmit \/ Tick

Spec == Init /\ [][Next]_vars

\* runs in which every tick has the same positive duration; the loop runs
\* lines 185-206 once per iteration, so a frame that can run does run
InitFair == Init /\ Cardinality(dts) = 1 /\ \A dt \in dts : dt > 0
FairSpec == InitFair /\ [][Next]_vars /\ WF_vars(Tick)

\* the same runs with the replies that bear on the queue: every move reply
\* of the model, and a fenced talk reply
QueueReplies == {MoveBody(sl) : sl \in StepLists} \cup
                {Fenced(<<Json(Dict([mode |-> "talk", content |-> Hello]))>>)}
OnSubmitQueue == \E raw_text \in QueueReplies : Submit(raw_text)
NextQueue == OnSubmitQueue \/ Tick
DrainSpec == InitFair /\ [][NextQueue]_vars /\ WF_vars(Tick)

TypeOK ==
    /\ pos \in (0..(cols - 1)) \X (0..(rows - 1))
    /\ moving \in BOOLEAN
    /\ last_dir \in Dir \cup {<<0, 0>>}
    /\ anim_i \in 0..1
    /\ Len(move_queue) <= MaxQueue
    /\ \A i \in 1..Len(move_queue) : move_queue[i] \in Dir
    /\ pc \in {"loop", "raised"}

(***************************************************************************)
(* Vocabulary of the properties                                            *)
(***************************************************************************)
North == <<0, 1>>
South == <<0, -1>>
West  == <<-1, 0>>
East  == <<1, 0>>

Cand(p, d)  == <<p[1] + d[1], p[2] + d[2]>>
InBounds(p) == p[1] \in 0..(cols - 1) /\ p[2] \in 0..(rows - 1)
Hazard(p)   == p \in lava_set

\* the frame that leads to the next state handled a reply / ran lines 185-206
ReplyStep == replies' = replies + 1
TickStep  == ev'.op = "tick"
PopStep   == TickStep /\ ev'.popped # <<>>

\* shape of a reply, read off the parsed record
IsRecord(raw)  == call_openai(raw).ty = "dict"
IsMove(raw)    == IsRecord(raw) /\ ModeIs(call_openai(raw).d, "move")
HasSteps(raw)  == IsMove(raw) /\ "steps" \in DOMAIN call_openai(raw).d
StepsOf(raw)   == call_openai(raw).d["steps"]
KnownWord(w)   == w \in {"up", "down", "left", "right"}
UnknownDirReply(raw) ==
    HasSteps(raw) /\ \E i \in 1..Len(StepsOf(raw)) : ~KnownWord(StepsOf(raw)[i]["dir"])
ValidMove(raw) ==
    HasSteps(raw) /\ \A i \in 1..Len(StepsOf(raw)) : KnownWord(StepsOf(raw)[i]["dir"])

\* the directions a valid step list stands for
Vec(w) == CASE w = "up"    -> North
            [] w = "down"  -> South
            [] w = "left"  -> West
            [] w = "right" -> East
RECURSIVE Flatten(_)
Flatten(steps) ==
    IF steps = <<>> THEN <<>>
    ELSE LET st == Head(steps)
             k  == IF "times" \in DOMAIN st THEN st["times"] ELSE 1
         IN [i \in 1..k |-> Vec(st["dir"])] \o Flatten(Tail(steps))

(***************************************************************************)
(* C1: a queued step d popped while the player stands on a cell of the     *)
(* directional set that refuses d is never accepted: the grid position     *)
(* stays and no transit starts.                                            *)
(***************************************************************************)
C1_LockedStepRefused ==
    [][ (PopStep /\ Head(move_queue) \in Refused(pos))
          => (~ev'.accepted /\ pos' = pos /\ moving' = moving) ]_vars

(***************************************************************************)
(* C2: handling a reply always ends in one of the outcomes Move, Talk or   *)
(* Error, and no exception leaves the tick loop.                           *)
(***************************************************************************)
C2_InterpretTotal ==
    ev.op = "reply" => (ev.outcome \in {"Move", "Talk", "Error"} /\ pc = "loop")

(***************************************************************************)
(* C3: a move reply with a step whose direction is not up, down, left or   *)
(* right gives the Error outcome and leaves the movement queue, the grid   *)
(* position and the transit state as they were.                            *)
(***************************************************************************)
C3_UnknownDirIsError ==
    [][ (ReplyStep /\ UnknownDirReply(ev'.raw))
          => /\ ev'.outcome = "Error"
             /\ move_queue' = move_queue
             /\ pos' = pos
             /\ moving' = moving ]_vars

(***************************************************************************)
(* C4: a tick removes at most one direction from the queue and changes the *)
(* grid position by at most one cell; a tick that starts during a transit  *)
(* removes nothing and leaves the grid position.                           *)
(***************************************************************************)
C4_OneStepPerTick ==
    [][ TickStep =>
          /\ \/ move_queue' = move_queue
             \/ move_queue # <<>> /\ move_queue' = Tail(move_queue)
          /\ Abs(pos'[1] - pos[1]) + Abs(pos'[2] - pos[2]) <= 1
          /\ moving => (move_queue' = move_queue /\ pos' = pos) ]_vars

\* a tick took one direction out of a queue of three and moved one cell
C4_Witness ==
    /\ ev.op = "tick" /\ ev.popped # <<>> /\ ev.accepted
    /\ Len(move_queue) = 2

(***************************************************************************)
(* C5: with movement enabled a valid move reply appends, behind what is    *)
(* queued, each step's direction times times (1 when absent) in listed     *)
(* order, with up=(0,1), down=(0,-1), left=(-1,0), right=(1,0); a tick     *)
(* that pops takes the head of the queue.                                  *)
(***************************************************************************)
C5_MoveAppendsFIFO ==
    [][ /\ (ReplyStep /\ ENABLE_MOVEMENT /\ ValidMove(ev'.raw))
             => /\ move_queue' = move_queue \o Flatten(StepsOf(ev'.raw))
                /\ ev'.outcome = "Move"
        /\ PopStep
             => /\ move_queue # <<>>
                /\ ev'.popped = <<Head(move_queue)>>
                /\ move_queue' = Tail(move_queue) ]_vars

\* a two-step reply without times fields, appended behind a queued direction
C5_Witness ==
    /\ ev.op = "reply" /\ ev.outcome = "Move"
    /\ ev.q0 # <<>>
    /\ Len(StepsOf(ev.raw)) = 2
    /\ move_queue = ev.q0 \o <<North, East>>

(***************************************************************************)
(* C6: from idle with an empty queue, a move reply with the single step up *)
(* repeated n times, none of the n cells above being out of bounds or a    *)
(* hazard, eventually leaves the player n cells higher in the same column, *)
(* idle with an empty queue, after exactly n transits.                     *)
(***************************************************************************)
RunUp ==
    /\ since.word = "up" /\ since.n >= 1
    /\ \A k \in 1..since.n :
          LET c == <<since.start[1], since.start[2] + k>> IN
          InBounds(c) /\ ~Hazard(c)
Settled == move_queue = <<>> /\ ~moving
C6_UpRunArrives ==
    /\ [](RunUp /\ Settled =>
            /\ pos = <<since.start[1], since.start[2] + since.n>>
            /\ since.transits = since.n)
    /\ [](RunUp => since.transits <= since.n)
    /\ (RunUp ~> (RunUp => Settled))

\* three steps up from the start cell have been walked
C6_Witness ==
    /\ RunUp /\ Settled /\ since.n = 3
    /\ since.start = <<1, 2>> /\ pos = <<1, 5>>

(***************************************************************************)
(* C7: a popped step is accepted exactly when the candidate cell is inside *)
(* the map and no hazard; the grid position is always inside the map and   *)
(* never on a hazard cell.                                                 *)
(***************************************************************************)
C7_AcceptedIffPassable ==
    /\ [](InBounds(pos) /\ ~Hazard(pos))
    /\ [][ PopStep =>
             LET c == Cand(pos, Head(move_queue)) IN
             /\ ev'.accepted <=> (InBounds(c) /\ ~Hazard(c))
             /\ pos' = IF ev'.accepted THEN c ELSE pos ]_vars

\* a step East into the hazard at (3, 2) was rejected
C7_Witness ==
    /\ ev.op = "tick" /\ ev.popped = <<East>> /\ ~ev.accepted
    /\ pos = <<2, 2>> /\ Hazard(<<3, 2>>)

(***************************************************************************)
(* C8 as stated: a rejected step is removed from the queue and changes     *)
(* nothing else, the idle timer included; three steps East from (1, 2)     *)
(* with a hazard at (3, 2) end at (2, 2), idle, with an empty queue.       *)
(***************************************************************************)
RejectStep == PopStep /\ ~ev'.accepted
EastRunDone ==
    (since.word = "right" /\ since.n = 3 /\ since.start = <<1, 2>> /\ Settled)
       => (pos = <<2, 2>> /\ since.transits = 1)
C8_RejectedChangesNothing ==
    /\ [][ RejectStep =>
             /\ move_queue' = Tail(move_queue)
             /\ UNCHANGED <<pos, target_px, target_py, moving, last_dir, anim_i,
                            anim_t, idle_t, latest_npc_msg, error_msg>> ]_vars
    /\ []EastRunDone

(***************************************************************************)
(* C8 amended: a rejected step is removed from the queue and never         *)
(* retried; the tick that rejects it leaves grid position, pixel position, *)
(* pixel target, transit state, last direction, frame index, frame timer,  *)
(* dialogue text and error text unchanged, and the idle timer is not reset *)
(* but advances by the tick duration as in every idle tick; the example    *)
(* run ends at (2, 2), idle, with an empty queue.                          *)
(***************************************************************************)
C8_RejectedOnlyAgesIdle ==
    /\ [][ RejectStep =>
             /\ move_queue' = Tail(move_queue)
             /\ UNCHANGED <<pos, px, py, target_px, target_py, moving, last_dir,
                            anim_i, anim_t, latest_npc_msg, error_msg>>
             /\ \E dt \in dts : idle_t' = Min(idle_t + dt, IdleCap) ]_vars
    /\ []EastRunDone

\* the second of three steps East was rejected at (2, 2), the third is queued
C8_Witness ==
    /\ since.word = "right" /\ since.n = 3 /\ since.start = <<1, 2>>
    /\ ev.op = "tick" /\ ev.popped = <<East>> /\ ~ev.accepted
    /\ pos = <<2, 2>> /\ Len(move_queue) = 1

(***************************************************************************)
(* C9: during a transit each pixel coordinate stays between its value at   *)
(* the start of the transit and its target, and no tick, whatever its      *)
(* duration, moves a coordinate past the target or away from it.           *)
(***************************************************************************)
Between(v, a, b) == (a <= v /\ v <= b) \/ (b <= v /\ v <= a)
StartX == target_px - last_dir[1] * tile * PX
StartY == target_py + last_dir[2] * tile * PX
C9_NoOvershoot ==
    /\ [](moving => /\ Between(px, StartX, target_px)
                    /\ Between(py, StartY, target_py))
    /\ [][ TickStep =>
             /\ Between(px', px, target_px')
             /\ Between(py', py, target_py')
             /\ Abs(target_px' - px') <= Abs(target_px' - px)
             /\ Abs(target_py' - py') <= Abs(target_py' - py) ]_vars

\* a step was accepted and completed in one tick longer than the whole way
C9_Witness ==
    /\ ev.op = "tick" /\ ev.accepted /\ ~moving
    /\ px = target_px /\ py = target_py
    /\ \A dt \in dts : StepLen(dt) # tile * PX

(***************************************************************************)
(* C10: with one fixed positive tick duration every accepted step ends,    *)
(* while the loop runs, idle with the pixel position equal to the target,  *)
(* in ceil(distance / (speed * dt)) ticks give or take one, the accepting  *)
(* tick included; transiting starts only with an accepted step.            *)
(***************************************************************************)
FixedDt == Cardinality(dts) = 1
TheDt   == CHOOSE dt \in dts : TRUE
NTicks  == (tile * PX + StepLen(TheDt) - 1) \div StepLen(TheDt)
C10_StepFinishes ==
    /\ [](FixedDt =>
            /\ moving => tticks <= NTicks
            /\ (~moving /\ tticks > 0) =>
                  /\ px = target_px /\ py = target_py
                  /\ tticks \in (NTicks - 1)..(NTicks + 1))
    /\ [][ (~moving /\ moving') => (PopStep /\ ev'.accepted) ]_vars
    /\ (moving ~> (~moving \/ pc # "loop"))

\* a transit of 50 pixels at 20 pixels per tick has ended in its third tick
C10_Witness ==
    /\ dts = {100} /\ ~moving /\ tticks = 3 /\ NTicks = 3
    /\ px = target_px /\ py = target_py /\ last_dir # <<0, 0>>

(***************************************************************************)
(* C11: with the movement flag off, a valid move reply leaves the movement *)
(* queue as it was and is not treated as an error: the outcome is not      *)
(* Error and the error text is not taken from the reply (it stays, or is   *)
(* cleared).                                                               *)
(***************************************************************************)
C11_DisabledMoveSilent ==
    [][ (ReplyStep /\ ~ENABLE_MOVEMENT /\ ValidMove(ev'.raw))
          => /\ move_queue' = move_queue
             /\ ev'.outcome # "Error"
             /\ error_msg' \in {error_msg, <<>>} ]_vars

(***************************************************************************)
(* C12: a reply that is, with or without code-fence markers around it, a   *)
(* record with mode talk and a content text sets the dialogue text to that *)
(* content and leaves the movement queue, the grid position, the pixel     *)
(* position and the transit state as they were.                            *)
(***************************************************************************)
TalkRecord(v) ==
    v.ty = "dict" /\ ModeIs(v.d, "talk") /\ "content" \in DOMAIN v.d
TalkReply(raw) ==
    \/ Len(raw) = 1 /\ raw[1].c = "json" /\ TalkRecord(raw[1].v)
    \/ /\ Len(raw) = 5 /\ raw[3].c = "json" /\ TalkRecord(raw[3].v)
       /\ raw = Fenced(<<raw[3]>>)
TalkContent(raw) == IF Len(raw) = 1 THEN raw[1].v.d["content"]
                                    ELSE raw[3].v.d["content"]
IdleTick == TickStep /\ ~ev'.accepted /\ ~moving'
C13_ResidualPoseThenIdle ==
    /\ [][ IdleTick =>
             /\ anim_i' = anim_i /\ last_dir' = last_dir
             /\ idle_t' >= idle_t
             /\ curr' = IF idle_t' >= IDLE_DELAY THEN IDLE_TILE ELSE curr
             /\ (~moving /\ idle_t >= IDLE_DELAY) => curr' = IDLE_TILE ]_vars
    /\ [][ ReplyStep =>
             UNCHANGED <<curr, idle_t, anim_i, last_dir, moving>> ]_vars
    /\ []((~moving /\ idle_t < IDLE_DELAY) =>
             /\ last_dir \in Dir
             /\ curr = ANIM_TILES[last_dir][anim_i + 1])

\* a step East was rejected 200 ms after the last transit: the walking frame
\* of that transit is still drawn
C13_Witness ==
    /\ ev.op = "tick" /\ ev.popped = <<East>> /\ ~ev.accepted
    /\ ~moving /\ idle_t = 200 /\ last_dir = East
    /\ curr \in {"320", "321"}

(***************************************************************************)
(* C14: a reply that is no valid JSON, or is valid JSON but no record with *)
(* mode move or talk, gives the Error outcome, and the error text is the   *)
(* text of the reply (as received, or as left once the fence markers and   *)
(* the whitespace around it are removed); the movement queue, the grid     *)
(* position, the transit state and the dialogue text stay.                 *)
(***************************************************************************)
Remainder(raw) == Strip(ReSubFence(raw))
OtherShape(raw) ==
    \/ ~Loadable(Remainder(raw))
    \/ LET v == Remainder(raw)[1].v IN
       \/ v.ty # "dict"
       \/ ~(ModeIs(v.d, "move") \/ ModeIs(v.d, "talk"))
C14_ErrorKeepsText ==
    [][ (ReplyStep /\ OtherShape(ev'.raw))
          => /\ ev'.outcome = "Error"
             /\ error_msg' \in {ev'.raw, Remainder(ev'.raw)}
             /\ UNCHANGED <<move_queue, pos, moving, latest_npc_msg>> ]_vars

(***************************************************************************)
(* C15 as stated: on a tick that ends in transit the frame timer grows by  *)
(* dt, and when it reaches the interval it is reset to zero and the frame  *)
(* index advances by one modulo the cycle length of the direction; an      *)
(* accepted step sets the frame index and the frame timer to 0 before the  *)
(* accumulation of its tick.                                               *)
(***************************************************************************)
TimerIn == IF ev'.accepted THEN 0 ELSE anim_t
IndexIn == IF ev'.accepted THEN 0 ELSE anim_i
Cycle   == Len(ANIM_TILES[last_dir'])
C15_TimerResetsToZero ==
    [][ (TickStep /\ moving') =>
          \E dt \in dts :
             IF TimerIn + dt >= ANIM_INTERVAL
             THEN anim_t' = 0 /\ anim_i' = (IndexIn + 1) % Cycle
             ELSE anim_t' = TimerIn + dt /\ anim_i' = IndexIn ]_vars

(***************************************************************************)
(* C15 amended: as above, but a timer that reaches the interval is reduced *)
(* by the interval, keeping the excess, and the frame index advances by    *)
(* one, once per tick; a tick that ends idle leaves the timer and the      *)
(* index as the acceptance test left them.                                 *)
(***************************************************************************)
C15_TimerKeepsExcess ==
    /\ [][ (TickStep /\ moving') =>
             \E dt \in dts :
                IF TimerIn + dt >= ANIM_INTERVAL
                THEN /\ anim_t' = TimerIn + dt - ANIM_INTERVAL
                     /\ anim_i' = (IndexIn + 1) % Cycle
                ELSE anim_t' = TimerIn + dt /\ anim_i' = IndexIn ]_vars
    /\ [][ (TickStep /\ ~moving') =>
             anim_t' = TimerIn /\ anim_i' = IndexIn ]_vars

\* the second of two steps North was accepted with 160 ms on the timer:
\* the timer restarted from 0 and holds the 80 ms beyond the interval
C15_Witness ==
    /\ ev.op = "tick" /\ ev.accepted /\ moving
    /\ since.word = "up" /\ since.transits = 2 /\ last_dir = North
    /\ dts = {100} /\ anim_t = 80 /\ anim_i = 1

(***************************************************************************)
(* C16: in every reachable state the pixel target is                       *)
(* (x * tile, (rows - 1 - y) * tile) for the grid position (x, y), and     *)
(* while idle the pixel position equals the target.                        *)
(***************************************************************************)
C16_TargetFollowsGrid ==
    /\ target_px = pos[1] * tile * PX
    /\ target_py = (rows - 1 - pos[2]) * tile * PX
    /\ ~moving => (px = target_px /\ py = target_py)

\* in transit from (1, 3) to (2, 3): the target is that of (2, 3), the pixel
\* position is still on the way
C16_Witness ==
    /\ moving /\ pos = <<2, 3>> /\ last_dir = East
    /\ target_px = 500 /\ target_py = 750
    /\ px > 250 /\ px < 500 /\ py = 750

(***************************************************************************)
(* C17: the grid position changes only in a tick that accepts a step, and  *)
(* then by one cell along one axis; in every state at most one pixel       *)
(* coordinate differs from its target, and no tick changes both pixel      *)
(* coordinates.                                                            *)
(***************************************************************************)
C17_OneAxisAtATime ==
    /\ [][ pos' # pos =>
             /\ PopStep /\ ev'.accepted
             /\ Abs(pos'[1] - pos[1]) + Abs(pos'[2] - pos[2]) = 1 ]_vars
    /\ [](px = target_px \/ py = target_py)
    /\ [][ px' = px \/ py' = py ]_vars

\* in transit North from (2, 2) to (2, 3), after the transit East from the
\* start cell: only the vertical coordinate is off its target
C17_Witness ==
    /\ moving /\ last_dir = North /\ pos = <<2, 3>>
    /\ px = target_px /\ py # target_py

(***************************************************************************)
(* C18: in every reachable state the frame lookup is defined: while in     *)
(* transit the last direction is one of the four registered directions,    *)
(* the last direction is otherwise registered or the initial (0, 0), and   *)
(* the frame index is an index into the cycle used for display: the        *)
(* registered cycle of the last direction, or the one-element idle         *)
(* fallback for (0, 0).                                                    *)
(***************************************************************************)
Registered(d) == d \in {North, South, West, East} /\ d \in DOMAIN ANIM_TILES
DisplayCycle  == IF last_dir \in DOMAIN ANIM_TILES THEN ANIM_TILES[last_dir]
                                                   ELSE <<IDLE_TILE>>
C18_FrameLookupDefined ==
    /\ moving => Registered(last_dir)
    /\ Registered(last_dir) \/ last_dir = <<0, 0>>
    /\ anim_i \in 0..(Len(DisplayCycle) - 1)
    /\ curr \in {"", IDLE_TILE} \cup {DisplayCycle[k] : k \in DOMAIN DisplayCycle}

\* in transit South, the second frame of the cycle is drawn
C18_Witness ==
    /\ moving /\ last_dir = South /\ anim_i = 1 /\ curr = "341"

(***************************************************************************)
(* C19: while the loop runs with ticks of a positive duration, every tick  *)
(* that starts idle with a queued direction removes one, accepted or       *)
(* rejected; from every state the queue is eventually empty and the       *)
(* player idle, and ticks keep it so until a reply arrives.                *)
(***************************************************************************)
C19_QueueDrains ==
    /\ [][ (TickStep /\ ~moving /\ move_queue # <<>>) =>
             /\ ev'.popped = <<Head(move_queue)>>
             /\ move_queue' = Tail(move_queue) ]_vars
    /\ [][ (TickStep /\ Settled) => Settled' ]_vars
    /\ (~Settled ~> (Settled \/ pc # "loop"))

\* two replies were taken, the last one with more than one step or while
\* busy, and the queue has drained with the player two cells from the start
C19_Witness ==
    /\ pc = "loop" /\ Settled /\ replies = 2
    /\ ev.op = "tick" /\ since.n = 0
    /\ pos = <<2, 3>>

====
